---- MODULE Spec2Model ----
(***************************************************************************)
(* A model of yambo-tester: the fixture download (download.py), the        *)
(* archive stage and the subtest execution engine (runner.py), the driver  *)
(* (cli.py) and the pytest comparator (tests/test_reference.py,            *)
(* scripts/test_reference.py).                                             *)
(***************************************************************************)
EXTENDS Integers, Sequences, FiniteSets, TLC

\* ------------------------------------------------------------------ bounds

\* Longest manifest (number of subtests in tests.toml) explored.
MaxSubtests == 2

\* Longest list of configured tests (config['tests']) explored.
MaxTests == 2

\* Most rows of a tabular file explored.
MaxRows == 2

\* ------------------------------------------------------- program constants

\* The reserved "executable unavailable" return code the comparator tests for.
UNAVAILABLE == -9999

\* Numbers of the tabular files are counted in units of 1e-6.
\* zero_dfl of tests/test_reference.py: 1e-5.
ZeroDflPytest == 10

\* zero_dfl of scripts/test_reference.py: 1e-6.
ZeroDflScript == 1

\* threshold = max_abs * 1e-3 in scripts/test_reference.py: one part in 1000.
ThresholdParts == 1000

\* ------------------------------------------------------------ input domains

\* Executable roles a subtest may name (run['exe']): 'yambo' is mandatory,
\* 'ypp' is one of the roles check_parameters may deactivate (set to None).
Roles == {"yambo", "ypp"}

\* Input-file names as sequences of code points: "1", "12", "2".
InputNames == {<<49>>, <<49, 50>>, <<50>>}

\* Number of reference mappings a subtest declares (len(val['reference'])).
RefCounts == {1, 2}

\* One subtest of tests.toml.
Entry == [exe : Roles, input : InputNames, nref : RefCounts]

\* The manifests (tests.toml without 'sha256') of at most n subtests; a
\* subtest's name is its position in declaration order (TOML keys are unique).
\* The first subtest declares one or two references, the others one.
Manifests(n) ==
    {m \in UNION {[1..k -> Entry] : k \in 1..n} :
        \A i \in DOMAIN m : i > 1 => m[i].nref = 1}

\* Exit statuses a child process may report.
RetCodes == {0, 1}

\* Exit statuses of a launcher that cannot start the program it is given.
NonZeroCodes == RetCodes \ {0}

\* parameters['tollerance'] as a fraction <<numerator, denominator>>.
DefaultTollerance == <<1, 10>>

\* The configured test (config['tests'] maps a name to a list of types).
TestName == "hBN"

\* The test types config['tests'] may list under that name.
TestTypes == {"GW-OPTICS", "BSE"}

\* What the file at a cache path may hold: the archive the manifest was
\* written for, another complete archive, or an empty or cut-off file.
Contents == {"full", "other", "trunc"}

\* The non-empty lists of at most n test types.
TestLists(n) == UNION {[1..k -> TestTypes] : k \in 1..n}

\* ---------------------------------------------------------------- state

VARIABLES
    argv,        \* the flags on the command line of yambo-tester
    configToml,  \* 'nochecksum' of config.toml: <<>> if not set, else <<value>>
    parameters,  \* the parameters dict after check_parameters
    tests,       \* the test types main iterates over
    testsToml,   \* the subtests of tests.toml in the run directory
    ti,          \* main: position in tests of the loop
    pc,          \* where main is
    error,       \* the exception that ended main, "none" if none
    cache,       \* cache_dir: per test type "absent" or the file's content
    process,     \* download_test's process: <<>> for None, else <<returncode>>
    calls,       \* history: the download_test calls that returned
    extracted,   \* what of the archive is in test_dir: "none", "partial", "all"
    tarAtCheck,  \* history: the cached file when its checksum was compared
    runDir,      \* run_dir: what SAVE, SAVE_converted and oldSAVE hold
    config,      \* run_test: the loaded manifest
    subtests,    \* run_test: the subtest names in execution order
    idx,         \* run_test: position in subtests of the loop
    live,        \* child processes started and not yet reaped
    launched,    \* history: subtests a process was started for, in order
    attempts,    \* history: number of Popen calls made by run_test
    exits,       \* history: the return codes the child processes exited with
    results,     \* run_test: the results dict, in insertion order
    outFiles,    \* run_dir: per (subtest, reference) looked at, how the files compare
    resultsFile, \* results.toml in run_dir: <<>> if absent, else <<content>>
    writes,      \* history: number of times results.toml was written
    tix,         \* pytest: index of the next parametrized item
    runVerdict,  \* pytest: outcome of test_runs_ok per run item
    refVerdict,  \* pytest: outcome of test_reference_ok per ref item
    refData,     \* comparator: the reference file as columns of values
    outData,     \* comparator: the output file as columns of values
    tol,         \* comparator: the relative tolerance, a fraction
    verdict,     \* comparator: <<>>, or <<what tests/test_reference.py found>>
    scriptVerdict, \* comparator: <<>>, or <<what scripts/test_reference.py found>>
    ndbRef,      \* dataset comparator: the reference file, a flat sequence
    ndbData,     \* dataset comparator: per declared variable, its flattened values
    repItem,     \* report comparator: the ref_item, <<>> if none
    repFiles,    \* report comparator: the files of the run directory, <<>> if none
    session,     \* pytest: 1 in the first session on a run directory, 2 in the second
    firstVerdicts, \* pytest: <<>>, or <<the verdicts of the first session>>
    harness,     \* two harnesses on one cache_dir: per harness, where it is
    sharedTar,   \* two harnesses: "absent" or the content of the cache file
    writers,     \* two harnesses: the wget processes that have the file open
    cmdPar,      \* command line: the parameters run_test is given, <<>> if none
    cmdRun,      \* command line: the subtest's entry of tests.toml, <<>> if none
    cmd,         \* command line: <<>>, or <<the cmd list of the loop body>>
    cmdResult    \* command line: <<>>, or <<results[name]['cmd']>>

vars == <<argv, configToml, parameters, tests, testsToml, ti, pc, error, cache, process, calls,
          extracted, tarAtCheck, runDir, config, subtests, idx, live, launched,
          attempts, exits, results, outFiles, resultsFile, writes, tix, runVerdict,
          refVerdict, session, firstVerdicts,
          refData, outData, tol, verdict, scriptVerdict, ndbRef, ndbData,
          repItem, repFiles, harness, sharedTar, writers,
          cmdPar, cmdRun, cmd, cmdResult>>

ndbVars == <<ndbRef, ndbData>>
repVars == <<repItem, repFiles>>
againVars == <<session, firstVerdicts>>
concVars == <<harness, sharedTar, writers>>
cmdLineVars == <<cmdPar, cmdRun, cmd, cmdResult>>
auxVars == <<ndbVars, repVars, againVars, concVars, cmdLineVars>>
inputVars == <<argv, configToml, parameters, tests, testsToml>>
fetchVars == <<cache, process, calls>>
archiveVars == <<extracted, tarAtCheck, runDir>>
runVars == <<config, subtests, idx, live, launched, attempts, exits, results>>
fileVars == <<resultsFile, writes>>
pytestVars == <<tix, runVerdict, refVerdict, outFiles>>
cmpVars == <<refData, outData, tol, verdict, scriptVerdict>>
harnessVars == <<argv, configToml, parameters, tests, testsToml, ti, pc, error,
                 cache, process, calls, extracted, tarAtCheck, runDir, config, subtests, idx, live,
                 launched, attempts, exits, results, outFiles, resultsFile, writes, tix,
                 runVerdict, refVerdict>>

\* An exception leaves main: nothing catches it.
Abort(e) == pc' = "aborted" /\ error' = e

\* The test type main is at.
cur == tests[ti]

\* ------------------------------------------------------- download_test

\* tar_file = cache_dir.joinpath(name + "_" + run_type + ".tar.gz")
TarFile(name, run_type) == <<"cache_dir", name, "_", run_type, ".tar.gz">>

\* Mutant of DownloadTest: the cache is not looked at and wget always called.
DownloadTestAlwaysFetch ==
    /\ pc = "download_test"
    /\ process' = <<>>
    /\ pc' = "wget"
    /\ UNCHANGED <<ti, error, cache, calls>>
    /\ UNCHANGED <<auxVars, cmpVars, inputVars, archiveVars, runVars, fileVars, pytestVars>>

\* download_test up to the cache test: an existing file is "already
\* available" and no process is made, else wget is called.
DownloadTest ==
    /\ pc = "download_test"
    /\ process' = <<>>
    /\ pc' = IF cache[cur] # "absent" THEN "download_return" ELSE "wget"
    /\ UNCHANGED <<ti, error, cache, calls>>
    /\ UNCHANGED <<auxVars, cmpVars, inputVars, archiveVars, runVars, fileVars, pytestVars>>

\* wget -O tar_file through the shell: the shell may fail to start wget, or
\* wget to open its output, and then no file is made; else the output file
\* is created empty before the transfer.
WgetOpen ==
    /\ pc = "wget"
    /\ \E started \in BOOLEAN :
          IF started
          THEN /\ cache' = [cache EXCEPT ![cur] = "trunc"]
               /\ pc' = "wget_transfer"
               /\ UNCHANGED process
          ELSE /\ \E rc \in NonZeroCodes : process' = <<rc>>
               /\ pc' = "download_return"
               /\ UNCHANGED cache
    /\ UNCHANGED <<ti, error, calls>>
    /\ UNCHANGED <<auxVars, cmpVars, inputVars, archiveVars, runVars, fileVars, pytestVars>>

\* The transfer, written straight into tar_file; process.communicate() in
\* wget() waits for its end. A failed or cut-off transfer leaves the file as
\* far as it was written and a nonzero return code.
WgetTransfer ==
    /\ pc = "wget_transfer"
    /\ \E c \in Contents :
          /\ cache' = [cache EXCEPT ![cur] = c]
          /\ IF c = "trunc"
             THEN \E rc \in NonZeroCodes : process' = <<rc>>
             ELSE process' = <<0>>
    /\ pc' = "download_return"
    /\ UNCHANGED <<ti, error, calls>>
    /\ UNCHANGED <<auxVars, cmpVars, inputVars, archiveVars, runVars, fileVars, pytestVars>>

\* return tar_file, process. In the download-only mode main drops both and
\* goes on to the next test; setup_rundir goes on with its directories.
DownloadReturn ==
    /\ pc = "download_return"
    /\ calls' = Append(calls, [type |-> cur,
                               path |-> TarFile(TestName, cur),
                               process |-> process,
                               file |-> cache[cur]])
    /\ IF parameters.donly
       THEN ti' = ti + 1 /\ pc' = "main"
       ELSE ti' = ti /\ pc' = "setup_rundir"
    /\ UNCHANGED <<error, cache, process>>
    /\ UNCHANGED <<auxVars, cmpVars, inputVars, archiveVars, runVars, fileVars, pytestVars>>

\* -------------------------------------------------------- setup_rundir

\* sha256sum of a file by its content; "e3b0" is the digest of no bytes.
Sha256sum(content) ==
    CASE content = "full" -> "9f2c"
      [] content = "other" -> "41d0"
      [] content = "trunc" -> "e3b0"

\* config['sha256']: the digest of the archive the manifest was written for.
ManifestSha == "9f2c"

\* The scratch directories, the copy of the inputs and references, and the
\* load of tests.toml: any of them may raise.
SetupDirs ==
    /\ pc = "setup_rundir"
    /\ \E ok \in BOOLEAN :
          IF ok THEN pc' = "wait_download" /\ UNCHANGED error
                ELSE Abort("OSError")
    /\ UNCHANGED ti
    /\ UNCHANGED <<auxVars, cmpVars, inputVars, fetchVars, archiveVars, runVars, fileVars, pytestVars>>

\* if process != None: a nonzero return code of wget raises RuntimeError.
WaitDownload ==
    /\ pc = "wait_download"
    /\ IF process # <<>> /\ process[1] # 0
       THEN Abort("RuntimeError")
       ELSE pc' = "checksum" /\ UNCHANGED error
    /\ UNCHANGED ti
    /\ UNCHANGED <<auxVars, cmpVars, inputVars, fetchVars, archiveVars, runVars, fileVars, pytestVars>>

\* Mutant of VerifyChecksum: a digest that differs is logged and not raised.
VerifyChecksumLogOnly ==
    /\ pc = "checksum"
    /\ tarAtCheck' = IF ~parameters.nochecksum THEN cache[cur] ELSE tarAtCheck
    /\ pc' = "extract"
    /\ UNCHANGED <<ti, error, extracted, runDir>>
    /\ UNCHANGED <<auxVars, cmpVars, inputVars, fetchVars, runVars, fileVars, pytestVars>>

\* if not parameters['nochecksum']: a digest that differs raises ValueError.
VerifyChecksum ==
    /\ pc = "checksum"
    /\ IF ~parameters.nochecksum
       THEN /\ tarAtCheck' = cache[cur]
            /\ IF ManifestSha # Sha256sum(cache[cur])
               THEN Abort("ValueError")
               ELSE pc' = "extract" /\ UNCHANGED error
       ELSE /\ pc' = "extract"
            /\ UNCHANGED <<error, tarAtCheck>>
    /\ UNCHANGED <<ti, extracted, runDir>>
    /\ UNCHANGED <<auxVars, cmpVars, inputVars, fetchVars, runVars, fileVars, pytestVars>>

\* No directory of the three in run_dir.
NoSaveDirs == [SAVE |-> "absent", SAVE_converted |-> "absent", oldSAVE |-> "absent"]

\* run_dir with the SAVE directory alone.
SaveOnly == [NoSaveDirs EXCEPT !.SAVE = "plain"]

\* What the copied inputs and the archive may put in run_dir: each of the
\* three directories or not, oldSAVE with files in it.
RunDirs ==
    [SAVE : {"absent", "plain"}, SAVE_converted : {"absent", "converted"},
     oldSAVE : {"absent", "stale"}]

\* tarfile.open(tar_file) and extractall(test_dir): a complete archive is
\* extracted whole; an empty or cut-off one raises, after none or some of its
\* members were written.
Extract ==
    /\ pc = "extract"
    /\ IF cache[cur] = "trunc"
       THEN /\ \E e \in {"none", "partial"} : extracted' = e
            /\ Abort("ReadError")
            /\ UNCHANGED runDir
       ELSE /\ extracted' = "all"
            /\ runDir' \in RunDirs
            /\ pc' = "run_test"
            /\ UNCHANGED error
    /\ UNCHANGED <<ti, tarAtCheck>>
    /\ UNCHANGED <<auxVars, cmpVars, inputVars, fetchVars, runVars, fileVars, pytestVars>>

\* ------------------------------------------------------------ run_test

\* Python's str comparison: lexicographic by code point, a proper prefix first.
RECURSIVE StrLess(_, _)
StrLess(a, b) ==
    IF b = <<>> THEN FALSE
    ELSE IF a = <<>> THEN TRUE
    ELSE IF Head(a) # Head(b) THEN Head(a) < Head(b)
    ELSE StrLess(Tail(a), Tail(b))

\* The sort key of run_test: lambda x: x[1]['input'].
SortKey(cfg, name) == cfg[name].input

\* list.sort is stable: an item goes after every item whose key is not greater.
RECURSIVE InsertSorted(_, _, _)
InsertSorted(cfg, name, s) ==
    IF s = <<>> THEN <<name>>
    ELSE IF StrLess(SortKey(cfg, name), SortKey(cfg, Head(s)))
         THEN <<name>> \o s
         ELSE <<Head(s)>> \o InsertSorted(cfg, name, Tail(s))

RECURSIVE SortFrom(_, _, _)
SortFrom(cfg, k, acc) ==
    IF k > Len(cfg) THEN acc
    ELSE SortFrom(cfg, k + 1, InsertSorted(cfg, k, acc))

\* Mutant of SortedSubtests: the sort is left out and the subtests run as
\* declared.
DeclaredOrder(cfg) == [k \in 1..Len(cfg) |-> k]

\* subtests = list(config.items()); subtests.sort(key=...)
SortedSubtests(cfg) == SortFrom(cfg, 1, <<>>)

\* parameters[run['exe']] is a path (TRUE) or None (FALSE).
ExeResolved(name) == parameters.exe[config[name].exe]

\* cmd[0] names a program that exists: the launcher when one is configured,
\* else the executable (str(None) = "None" names no program).
CmdStartable(name) == parameters.mpi_launcher \/ ExeResolved(name)

\* if SAVE_converted.exists(): SAVE.rename(oldSAVE), SAVE_converted.rename(SAVE).
\* Path.rename raises FileNotFoundError when SAVE is missing and OSError when
\* oldSAVE is a directory with files in it; <<>> stands for the exception.
SwapSave(d) ==
    IF d.SAVE_converted = "absent" THEN <<d>>
    ELSE IF d.SAVE = "absent" \/ d.oldSAVE # "absent" THEN <<>>
    ELSE <<[SAVE |-> d.SAVE_converted, SAVE_converted |-> "absent",
            oldSAVE |-> d.SAVE]>>

\* The exception of SwapSave(d) when it raises.
SwapError(d) == IF d.SAVE = "absent" THEN "FileNotFoundError" ELSE "OSError"

\* run_test up to the loop: load tests.toml, swap the SAVE directories, start
\* the results dict, sort.
RunTestStart ==
    /\ pc = "run_test"
    /\ config' = testsToml
    /\ IF SwapSave(runDir) = <<>>
       THEN /\ Abort(SwapError(runDir))
            /\ UNCHANGED <<runDir, subtests, idx, results>>
       ELSE /\ runDir' = SwapSave(runDir)[1]
            /\ subtests' = SortedSubtests(testsToml)
            /\ idx' = 1
            /\ results' = <<>>
            /\ pc' = "loop"
            /\ UNCHANGED error
    /\ UNCHANGED <<ti, live, launched, attempts, exits, extracted, tarAtCheck>>
    /\ UNCHANGED <<auxVars, cmpVars, inputVars, fetchVars, fileVars, pytestVars>>

\* One iteration up to subprocess.Popen: the command is built whatever
\* parameters[run['exe']] is; Popen raises when the program cannot be started.
Launch ==
    /\ pc = "loop"
    /\ idx <= Len(subtests)
    /\ attempts' = attempts + 1
    /\ LET name == subtests[idx] IN
         IF ~CmdStartable(name)
         THEN /\ Abort("FileNotFoundError")
              /\ UNCHANGED <<live, launched>>
         ELSE \E spawned \in BOOLEAN :
                IF spawned
                THEN /\ live' = live \cup {name}
                     /\ launched' = Append(launched, name)
                     /\ pc' = "communicate"
                     /\ UNCHANGED error
                ELSE /\ Abort("OSError")
                     /\ UNCHANGED <<live, launched>>
    /\ UNCHANGED <<ti, config, subtests, idx, exits, results>>
    /\ UNCHANGED <<auxVars, cmpVars, inputVars, fetchVars, archiveVars, fileVars, pytestVars>>

\* Mutant of Communicate: the return code is recorded and a nonzero one is
\* then raised, as check=True would.
CommunicateThenRaise ==
    /\ pc = "communicate"
    /\ LET name == subtests[idx] IN
         \E rc \in (IF ExeResolved(name) THEN RetCodes ELSE NonZeroCodes) :
            /\ live' = live \ {name}
            /\ exits' = Append(exits, rc)
            /\ results' = Append(results, [name |-> name, returncode |-> rc])
            /\ IF rc # 0 THEN Abort("CalledProcessError")
                         ELSE pc' = "loop" /\ UNCHANGED error
    /\ idx' = idx + 1
    /\ UNCHANGED <<ti, config, subtests, launched, attempts>>
    /\ UNCHANGED <<auxVars, cmpVars, inputVars, fetchVars, archiveVars, fileVars, pytestVars>>

\* Mutant of Communicate: the results are dumped to results.toml after every
\* subtest.
CommunicateAndDump ==
    /\ pc = "communicate"
    /\ LET name == subtests[idx] IN
         \E rc \in (IF ExeResolved(name) THEN RetCodes ELSE NonZeroCodes) :
            /\ live' = live \ {name}
            /\ exits' = Append(exits, rc)
            /\ results' = Append(results, [name |-> name, returncode |-> rc])
    /\ resultsFile' = <<[tollerance |-> parameters.tollerance, runs |-> results']>>
    /\ writes' = writes + 1
    /\ idx' = idx + 1
    /\ pc' = "loop"
    /\ UNCHANGED <<ti, error, config, subtests, launched, attempts>>
    /\ UNCHANGED <<auxVars, cmpVars, inputVars, fetchVars, archiveVars, pytestVars>>

\* process.communicate() returns when the child has exited; the run info is
\* stored under the subtest's name whatever the return code.
Communicate ==
    /\ pc = "communicate"
    /\ LET name == subtests[idx] IN
         \E rc \in (IF ExeResolved(name) THEN RetCodes ELSE NonZeroCodes) :
            /\ live' = live \ {name}
            /\ exits' = Append(exits, rc)
            /\ results' = Append(results, [name |-> name, returncode |-> rc])
    /\ idx' = idx + 1
    /\ pc' = "loop"
    /\ UNCHANGED <<ti, error, config, subtests, launched, attempts>>
    /\ UNCHANGED <<auxVars, cmpVars, inputVars, fetchVars, archiveVars, fileVars, pytestVars>>

\* After the loop: toml.dump(results) into run_dir/results.toml.
WriteResults ==
    /\ pc = "loop"
    /\ idx > Len(subtests)
    /\ resultsFile' = <<[tollerance |-> parameters.tollerance, runs |-> results]>>
    /\ writes' = writes + 1
    /\ pc' = "pytest"
    /\ UNCHANGED <<ti, error>>
    /\ UNCHANGED <<auxVars, cmpVars, inputVars, fetchVars, archiveVars, runVars, pytestVars>>

\* -------------------------------------------------------------- pytest

\* items = list(results.items()) after results.pop('tollerance').
RunItems == resultsFile[1].runs

\* results[key]['returncode'] of the parametrization loop.
RECURSIVE ReturnCodeOf(_, _)
ReturnCodeOf(runs, key) ==
    IF Head(runs).name = key THEN Head(runs).returncode
    ELSE ReturnCodeOf(Tail(runs), key)

\* The (subtest, reference) pairs of one subtest, in declaration order.
RECURSIVE RefsOf(_, _, _)
RefsOf(key, nref, j) ==
    IF j > nref THEN <<>>
    ELSE <<[key |-> key, ref |-> j,
            skip |-> (ReturnCodeOf(RunItems, key) = UNAVAILABLE)]>>
         \o RefsOf(key, nref, j + 1)

\* The ref_item list: for key, val in tests.items(): for r, o in val['reference'].
RECURSIVE RefItemsFrom(_)
RefItemsFrom(key) ==
    IF key > Len(testsToml) THEN <<>>
    ELSE RefsOf(key, testsToml[key].nref, 1) \o RefItemsFrom(key + 1)

RefItems == RefItemsFrom(1)

\* test_runs_ok on one run item.
RunsOkVerdict(rc) ==
    IF rc = UNAVAILABLE THEN "Skip"
    ELSE IF rc = 0 THEN "Pass" ELSE "Fail"

\* Mutant of PytestGenerate: results.pop('tollerance') is written back to
\* results.toml.
PytestGeneratePopStored ==
    /\ pc = "pytest"
    /\ resultsFile # <<>>
    /\ runVerdict' = [i \in {RunItems[k].name : k \in 1..Len(RunItems)} |-> "none"]
    /\ refVerdict' = [p \in {<<RefItems[k].key, RefItems[k].ref>> :
                              k \in 1..Len(RefItems)} |-> "none"]
    /\ tix' = 1
    /\ pc' = "test_runs_ok"
    /\ resultsFile' = <<[resultsFile[1] EXCEPT !.tollerance = <<>>]>>
    /\ UNCHANGED <<ti, error, writes, outFiles>>
    /\ UNCHANGED <<auxVars, cmpVars, inputVars, fetchVars, archiveVars, runVars>>

\* pytest_generate_tests: results.toml and tests.toml are read and the two
\* item lists are built.
PytestGenerate ==
    /\ pc = "pytest"
    /\ resultsFile # <<>>
    /\ runVerdict' = [i \in {RunItems[k].name : k \in 1..Len(RunItems)} |-> "none"]
    /\ refVerdict' = [p \in {<<RefItems[k].key, RefItems[k].ref>> :
                              k \in 1..Len(RefItems)} |-> "none"]
    /\ tix' = 1
    /\ pc' = "test_runs_ok"
    /\ UNCHANGED <<ti, error, outFiles>>
    /\ UNCHANGED <<auxVars, cmpVars, inputVars, fetchVars, archiveVars, runVars, fileVars>>

\* test_runs_ok on the next run item; a failing item does not stop pytest.
TestRunsOk ==
    /\ pc = "test_runs_ok"
    /\ IF tix <= Len(RunItems)
       THEN /\ runVerdict' = [runVerdict EXCEPT ![RunItems[tix].name] =
                                 RunsOkVerdict(RunItems[tix].returncode)]
            /\ tix' = tix + 1
            /\ UNCHANGED pc
       ELSE /\ tix' = 1
            /\ pc' = "test_reference_ok"
            /\ UNCHANGED runVerdict
    /\ UNCHANGED <<ti, error, refVerdict, outFiles>>
    /\ UNCHANGED <<auxVars, cmpVars, inputVars, fetchVars, archiveVars, runVars, fileVars>>

\* How the reference and the output of a ref item compare: files that
\* "agree" (the check finds nothing wrong) or "differ" (missing, unreadable
\* or out of tolerance). The files of a finished run stay as they are: what
\* was found once is found again.
FoundFiles(p) ==
    IF p \in DOMAIN outFiles THEN {outFiles[p]} ELSE {"agree", "differ"}

\* test_reference_ok on one ref item: skipped when the item says so, without
\* a look at the files; else float(info['tol']) raises when results.toml
\* holds no 'tollerance', and the files decide.
ReferenceOkVerdict(item, found) ==
    IF item.skip THEN "Skip"
    ELSE IF resultsFile[1].tollerance = <<>> THEN "Fail"
    ELSE IF found = "agree" THEN "Pass" ELSE "Fail"

\* Mutant of TestReferenceOk: the session ends at the first failing check.
TestReferenceOkStopAtFail ==
    /\ pc = "test_reference_ok"
    /\ IF tix <= Len(RefItems)
       THEN LET item == RefItems[tix]
                p == <<item.key, item.ref>>
            IN  \E found \in FoundFiles(p) :
                  /\ refVerdict' = [refVerdict EXCEPT ![p] =
                                       ReferenceOkVerdict(item, found)]
                  /\ outFiles' = IF item.skip THEN outFiles
                                 ELSE (p :> found) @@ outFiles
                  /\ tix' = tix + 1
                  /\ pc' = IF ReferenceOkVerdict(item, found) = "Fail"
                           THEN "done" ELSE pc
       ELSE /\ pc' = "done"
            /\ UNCHANGED <<tix, refVerdict, outFiles>>
    /\ UNCHANGED <<ti, error, runVerdict>>
    /\ UNCHANGED <<auxVars, cmpVars, inputVars, fetchVars, archiveVars, runVars, fileVars>>

\* test_reference_ok on the next ref item; a failing item does not stop
\* pytest.
TestReferenceOk ==
    /\ pc = "test_reference_ok"
    /\ IF tix <= Len(RefItems)
       THEN LET item == RefItems[tix]
                p == <<item.key, item.ref>>
            IN  \E found \in FoundFiles(p) :
                  /\ refVerdict' = [refVerdict EXCEPT ![p] =
                                       ReferenceOkVerdict(item, found)]
                  /\ outFiles' = IF item.skip THEN outFiles
                                 ELSE (p :> found) @@ outFiles
                  /\ tix' = tix + 1
                  /\ UNCHANGED pc
       ELSE /\ pc' = "done"
            /\ UNCHANGED <<tix, refVerdict, outFiles>>
    /\ UNCHANGED <<ti, error, runVerdict>>
    /\ UNCHANGED <<auxVars, cmpVars, inputVars, fetchVars, archiveVars, runVars, fileVars>>

\* ----------------------------------------------------------------- main

\* No dataset comparison is under way.
NdbIdle == ndbRef = <<>> /\ ndbData = <<>>

\* pytest has not been run on the run directory before.
AgainIdle == session = 1 /\ firstVerdicts = <<>>

\* No report check is under way.
RepIdle == repItem = <<>> /\ repFiles = <<>>

\* No command line is being put together outside the harness.
CmdIdle == cmdPar = <<>> /\ cmdRun = <<>> /\ cmd = <<>> /\ cmdResult = <<>>

\* No second harness works on the cache directory.
ConcIdle == harness = <<>> /\ sharedTar = "absent" /\ writers = {}

\* Nothing but the harness and the tabular comparators is running.
AuxIdle == NdbIdle /\ RepIdle /\ AgainIdle /\ ConcIdle /\ CmdIdle

\* The for loops of main: past the last test main returns; else the next
\* test starts with a run directory of its own.
MainLoop ==
    /\ pc = "main"
    /\ IF ti > Len(tests)
       THEN /\ pc' = "exit"
            /\ UNCHANGED <<process, archiveVars, runVars, fileVars, pytestVars>>
       ELSE /\ pc' = "download_test"
            /\ process' = <<>>
            /\ extracted' = "none"
            /\ tarAtCheck' = "unchecked"
            /\ runDir' = NoSaveDirs
            /\ config' = <<>>
            /\ subtests' = <<>>
            /\ idx' = 0
            /\ live' = {}
            /\ launched' = <<>>
            /\ attempts' = 0
            /\ exits' = <<>>
            /\ results' = <<>>
            /\ outFiles' = <<>>
            /\ resultsFile' = <<>>
            /\ writes' = 0
            /\ tix' = 0
            /\ runVerdict' = <<>>
            /\ refVerdict' = <<>>
    /\ UNCHANGED <<ti, error, cache, calls>>
    /\ UNCHANGED <<auxVars, cmpVars, inputVars>>

\* run_pytest has returned: the next test of the loop.
NextTest ==
    /\ pc = "done"
    /\ ti' = ti + 1
    /\ pc' = "main"
    /\ UNCHANGED error
    /\ UNCHANGED <<auxVars, cmpVars, inputVars, fetchVars, archiveVars, runVars, fileVars, pytestVars>>

\* The parameters check_parameters lets through in the running mode.
RunParameters ==
    [donly : {FALSE}, nochecksum : BOOLEAN, mpi_launcher : BOOLEAN,
     exe : {f \in [Roles -> BOOLEAN] : f["yambo"]},
     tollerance : {DefaultTollerance}]

\* The flags of the command line that are followed here.
ClFlags == {"--nochecksum"}

\* What config.toml may say of 'nochecksum': nothing, true or false.
ConfigEntries == {<<>>, <<TRUE>>, <<FALSE>>}

\* args.nochecksum of parse_args: the flag is declared with
\* action='store_false', so it is True without the flag and False with it.
ParseNochecksum(given) == "--nochecksum" \notin given

\* parameters['nochecksum'] after set_cl_args: a true args value replaces the
\* entry of config.toml, a false one is not copied; no entry then is False.
SetClArgs(given, entry) ==
    LET val == ParseNochecksum(given)
        merged == IF val THEN <<val>> ELSE entry
    IN  IF merged = <<>> THEN FALSE ELSE merged[1]

\* The command line and config.toml that gave parameters its 'nochecksum',
\* config.toml being one of entries.
ClArgs(entries) ==
    /\ argv \in SUBSET ClFlags
    /\ configToml \in entries
    /\ parameters.nochecksum = SetClArgs(argv, configToml)

\* The parameters of the download-only mode: no executable is looked at.
DonlyParameters ==
    {[p EXCEPT !.donly = TRUE] : p \in
        {q \in RunParameters : ~q.nochecksum /\ q.mpi_launcher /\ q.exe["ypp"]}}

\* The manifests the whole harness is explored with: one subtest.
MainManifests ==
    {m \in Manifests(1) : m[1].input = <<49>> /\ m[1].nref = 1}

\* main after load_config, set_cl_args and check_parameters. The cache holds
\* complete archives, if any.
MainStart(lists, entries) ==
    /\ parameters \in DonlyParameters \cup RunParameters
    /\ ClArgs(entries)
    /\ tests \in lists
    /\ testsToml \in MainManifests
    /\ ti = 1
    /\ pc = "main"
    /\ error = "none"
    /\ cache \in [TestTypes -> {"absent", "full", "other"}]
    /\ process = <<>>
    /\ calls = <<>>
    /\ extracted = "none"
    /\ tarAtCheck = "unchecked"
    /\ runDir = NoSaveDirs
    /\ config = <<>>
    /\ subtests = <<>>
    /\ idx = 0
    /\ live = {}
    /\ launched = <<>>
    /\ attempts = 0
    /\ exits = <<>>
    /\ results = <<>>
    /\ outFiles = <<>>
    /\ resultsFile = <<>>
    /\ writes = 0
    /\ tix = 0
    /\ runVerdict = <<>>
    /\ refVerdict = <<>>
    /\ refData = <<>>
    /\ outData = <<>>
    /\ tol = DefaultTollerance
    /\ verdict = <<>>
    /\ scriptVerdict = <<>>
    /\ AuxIdle

Init == MainStart(TestLists(MaxTests), {<<>>})

Next ==
    \/ MainLoop
    \/ DownloadTest
    \/ WgetOpen
    \/ WgetTransfer
    \/ DownloadReturn
    \/ SetupDirs
    \/ WaitDownload
    \/ VerifyChecksum
    \/ Extract
    \/ RunTestStart
    \/ Launch
    \/ Communicate
    \/ WriteResults
    \/ PytestGenerate
    \/ TestRunsOk
    \/ TestReferenceOk
    \/ NextTest

Spec == Init /\ [][Next]_vars

\* main for one test type, with any config.toml and command line.
InitCli == MainStart(TestLists(1), ConfigEntries)

SpecCli == InitCli /\ [][Next]_vars

\* ------------------------------------------------- the execution engine

\* The state in which main calls run_test for its first test: setup_rundir
\* has found the archive in the cache, verified and extracted it.
RunStart(manifests, dirs) ==
    /\ parameters \in {p \in RunParameters : ~p.nochecksum}
    /\ ClArgs({<<>>})
    /\ tests = <<"GW-OPTICS">>
    /\ testsToml \in manifests
    /\ ti = 1
    /\ pc = "run_test"
    /\ error = "none"
    /\ cache = [t \in TestTypes |-> IF t = "GW-OPTICS" THEN "full" ELSE "absent"]
    /\ process = <<>>
    /\ calls = <<[type |-> "GW-OPTICS", path |-> TarFile(TestName, "GW-OPTICS"),
                  process |-> <<>>, file |-> "full"]>>
    /\ extracted = "all"
    /\ tarAtCheck = "full"
    /\ runDir \in dirs
    /\ config = <<>>
    /\ subtests = <<>>
    /\ idx = 0
    /\ live = {}
    /\ launched = <<>>
    /\ attempts = 0
    /\ exits = <<>>
    /\ results = <<>>
    /\ outFiles = <<>>
    /\ resultsFile = <<>>
    /\ writes = 0
    /\ tix = 0
    /\ runVerdict = <<>>
    /\ refVerdict = <<>>
    /\ refData = <<>>
    /\ outData = <<>>
    /\ tol = DefaultTollerance
    /\ verdict = <<>>
    /\ scriptVerdict = <<>>
    /\ AuxIdle

InitRun == RunStart(Manifests(MaxSubtests), {SaveOnly})

NextRun ==
    \/ RunTestStart
    \/ Launch
    \/ Communicate
    \/ WriteResults
    \/ PytestGenerate
    \/ TestRunsOk
    \/ TestReferenceOk

SpecRun == InitRun /\ [][NextRun]_vars

\* run_test on a run directory of any layout, with a manifest of one subtest.
InitSwap == RunStart(MainManifests, RunDirs)

SpecSwap == InitSwap /\ [][NextRun]_vars

\* ------------------------------------------- the tabular comparators

\* A value of a parsed file: <<v>> for the number v (in units of 1e-6),
\* <<>> for NaN.
IsNaN(x) == x = <<>>
Num(x) == x[1]
Abs(v) == IF v < 0 THEN -v ELSE v

\* abs(x) < too_large: False for NaN; every number explored is below 10e99.
BelowTooLarge(x) == ~IsNaN(x)

\* np.all(abs(col) < too_large) and not np.all(np.isnan(col))
SanityOk(col) ==
    /\ \A r \in DOMAIN col : BelowTooLarge(col[r])
    /\ ~(\A r \in DOMAIN col : IsNaN(col[r]))

\* np.isclose: |out - ref| <= atol + rtol * |ref|, False when either is NaN.
IsClose(o, r, rtol, atol) ==
    /\ ~IsNaN(o)
    /\ ~IsNaN(r)
    /\ rtol[2] * Abs(Num(o) - Num(r)) <= rtol[2] * atol + rtol[1] * Abs(Num(r))

\* np.allclose over the rows given.
AllClose(outcol, refcol, rows, rtol, atol) ==
    \A r \in rows : IsClose(outcol[r], refcol[r], rtol, atol)

\* The data columns tests/test_reference.py loops over: range(1, shape[1]).
PytestColumns(ref) == 2..Len(ref)

\* The first assert of tests/test_reference.py that fails in column c, if any.
PytestColumnVerdict(ref, out, rtol, c) ==
    IF ~SanityOk(out[c]) THEN "NaN or too large number!"
    ELSE IF ~AllClose(out[c], ref[c], DOMAIN ref[c], rtol, ZeroDflPytest)
         THEN "Difference larger than tol!"
         ELSE "ok"

\* tests/test_reference.py on a text output file: the columns in order, the
\* first failing assert ends the test.
PytestTabular(ref, out, rtol) ==
    IF \A c \in PytestColumns(ref) : PytestColumnVerdict(ref, out, rtol, c) = "ok"
    THEN [outcome |-> "Pass", reason |-> "ok"]
    ELSE LET c == CHOOSE d \in PytestColumns(ref) :
                    /\ PytestColumnVerdict(ref, out, rtol, d) # "ok"
                    /\ \A e \in PytestColumns(ref) :
                          e < d => PytestColumnVerdict(ref, out, rtol, e) = "ok"
         IN [outcome |-> "Fail", reason |-> PytestColumnVerdict(ref, out, rtol, c)]

\* np.max(np.abs(refcol)) for a column without NaN.
MaxAbs(refcol) ==
    CHOOSE m \in {Abs(Num(refcol[r])) : r \in DOMAIN refcol} :
        \A r \in DOMAIN refcol : Abs(Num(refcol[r])) <= m

\* np.abs(x) >= threshold with threshold = max_abs * 1e-3; False for NaN.
MeetsThreshold(x, maxabs) ==
    ~IsNaN(x) /\ ThresholdParts * Abs(Num(x)) >= maxabs

\* mask = (|ref| >= threshold) | (|out| >= threshold): the rows compared.
Mask(refcol, outcol) ==
    {r \in DOMAIN refcol :
        \/ MeetsThreshold(refcol[r], MaxAbs(refcol))
        \/ MeetsThreshold(outcol[r], MaxAbs(refcol))}

\* The columns scripts/test_reference.py prints ERROR for: range(0, shape[1]),
\* the masked rows against rtol and its own zero_dfl.
ScriptErrors(ref, out, rtol) ==
    {c \in 1..Len(ref) :
        ~AllClose(out[c], ref[c], Mask(ref[c], out[c]), rtol, ZeroDflScript)}

\* scripts/test_reference.py on a text output file: the assert on the whole
\* output raises; the assert of a column is caught and printed.
ScriptTabular(ref, out, rtol) ==
    IF \E c \in 1..Len(out) : ~SanityOk(out[c])
    THEN [outcome |-> "Fail", reason |-> "NaN or too large number!", errors |-> {}]
    ELSE [outcome |-> "Pass", reason |-> "ok", errors |-> ScriptErrors(ref, out, rtol)]

\* test_reference_ok of tests/test_reference.py on the pair of files.
TestReferenceOkTabular ==
    /\ refData # <<>>
    /\ verdict = <<>>
    /\ verdict' = <<PytestTabular(refData, outData, tol)>>
    /\ UNCHANGED <<refData, outData, tol, scriptVerdict>>
    /\ UNCHANGED <<auxVars, harnessVars>>

\* test_reference_ok of scripts/test_reference.py on the pair of files.
ScriptReferenceOkTabular ==
    /\ refData # <<>>
    /\ scriptVerdict = <<>>
    /\ scriptVerdict' = <<ScriptTabular(refData, outData, tol)>>
    /\ UNCHANGED <<refData, outData, tol, verdict>>
    /\ UNCHANGED <<auxVars, harnessVars>>

\* Numbers a reference file may hold: 0, 0.000015, 0.02.
RefValues == {<<0>>, <<15>>, <<20000>>}

\* What an output file may hold: those, 0.021, 0.023 and NaN.
OutValues == RefValues \cup {<<21000>>, <<23000>>, <<>>}

\* The leading column of n rows: 0, 0.01, 0.02, ...
IndexColumn(n) == [r \in 1..n |-> <<(r - 1) * 10000>>]

\* The files of n rows: the leading column and one data column.
Tables(n, values) == {<<IndexColumn(n), col>> : col \in [1..n -> values]}

\* A reference and an output file of the same shape, and the tolerance of
\* the run; the harness is not running.
InitCmp ==
    /\ \E n \in 2..MaxRows :
          /\ refData \in Tables(n, RefValues)
          /\ outData \in Tables(n, OutValues)
    /\ tol = DefaultTollerance
    /\ verdict = <<>>
    /\ scriptVerdict = <<>>
    /\ parameters \in {p \in RunParameters :
                         ~p.nochecksum /\ p.mpi_launcher /\ p.exe["ypp"]}
    /\ ClArgs({<<>>})
    /\ tests = <<"GW-OPTICS">>
    /\ testsToml \in {m \in MainManifests : m[1].exe = "yambo"}
    /\ ti = 1
    /\ pc = "test_reference_ok"
    /\ error = "none"
    /\ cache = [t \in TestTypes |-> "absent"]
    /\ process = <<>>
    /\ calls = <<>>
    /\ extracted = "none"
    /\ tarAtCheck = "unchecked"
    /\ runDir = NoSaveDirs
    /\ config = <<>>
    /\ subtests = <<>>
    /\ idx = 0
    /\ live = {}
    /\ launched = <<>>
    /\ attempts = 0
    /\ exits = <<>>
    /\ results = <<>>
    /\ outFiles = <<>>
    /\ resultsFile = <<>>
    /\ writes = 0
    /\ tix = 0
    /\ runVerdict = <<>>
    /\ refVerdict = <<>>
    /\ AuxIdle

NextCmp ==
    \/ TestReferenceOkTabular
    \/ ScriptReferenceOkTabular

SpecCmp == InitCmp /\ [][NextCmp]_vars

\* The harness is not running: the state a comparator is looked at in.
HarnessIdle ==
    /\ parameters \in {p \in RunParameters :
                         ~p.nochecksum /\ p.mpi_launcher /\ p.exe["ypp"]}
    /\ ClArgs({<<>>})
    /\ tests = <<"GW-OPTICS">>
    /\ testsToml \in {m \in MainManifests : m[1].exe = "yambo"}
    /\ ti = 1
    /\ pc = "test_reference_ok"
    /\ error = "none"
    /\ cache = [t \in TestTypes |-> "absent"]
    /\ process = <<>>
    /\ calls = <<>>
    /\ extracted = "none"
    /\ tarAtCheck = "unchecked"
    /\ runDir = NoSaveDirs
    /\ config = <<>>
    /\ subtests = <<>>
    /\ idx = 0
    /\ live = {}
    /\ launched = <<>>
    /\ attempts = 0
    /\ exits = <<>>
    /\ results = <<>>
    /\ outFiles = <<>>
    /\ resultsFile = <<>>
    /\ writes = 0
    /\ tix = 0
    /\ runVerdict = <<>>
    /\ refVerdict = <<>>

\* No tabular comparison is under way.
CmpIdle ==
    /\ refData = <<>>
    /\ outData = <<>>
    /\ tol = DefaultTollerance
    /\ verdict = <<>>
    /\ scriptVerdict = <<>>

\* ------------------------------------------- the array-dataset comparators

\* Longest flat reference file explored.
MaxRefLen == 4

\* Longest flattened dataset variable explored.
MaxOutLen == 3

\* Numbers of declared variables explored: len(info['out'][1:]).
VarCounts == {1, 2}

\* Numbers a flat reference holds: 0 and 0.02.
NdbRefValues == {<<0>>, <<20000>>}

\* Numbers a dataset variable holds: 0.02 and 0.023.
NdbOutValues == {<<20000>>, <<23000>>}

Min(a, b) == IF a < b THEN a ELSE b

\* Mutant of NData: the block length is rounded up.
NDataCeil(L, n) == (L + n - 1) \div n

\* ndata = len(ref_data) // nvars
NData(L, n) == L \div n

\* start, stop = i*ndata, i*ndata+ndata for the i-th variable, i from 0.
BlockStart(i, L, n) == i * NData(L, n)
BlockStop(i, L, n) == i * NData(L, n) + NData(L, n)

\* The Python slice s[start:stop]: the bounds are cut to the length of s.
PySlice(s, start, stop) == SubSeq(s, Min(start, Len(s)) + 1, Min(stop, Len(s)))

\* out_data[:].ravel()[:m]
Prefix(s, m) == PySlice(s, 0, m)

\* numpy broadcasting of two one-dimensional arrays of lengths k and m.
Broadcastable(k, m) == k = m \/ k = 1 \/ m = 1
BroadcastSize(k, m) == IF k = 1 THEN m ELSE k
BroadcastAt(s, j) == IF Len(s) = 1 THEN s[1] ELSE s[j]

\* np.allclose(a, b) for arrays that broadcast.
AllCloseBroadcast(a, b, rtol, atol) ==
    \A j \in 1..BroadcastSize(Len(a), Len(b)) :
        IsClose(BroadcastAt(a, j), BroadcastAt(b, j), rtol, atol)

\* tests/test_reference.py on the i-th variable: the asserts in order; count
\* is the number of value pairs np.allclose compared.
PytestNdbVar(ref, out, i, n, rtol) ==
    LET start == BlockStart(i, Len(ref), n)
        stop  == BlockStop(i, Len(ref), n)
        block == PySlice(ref, start, stop)
        a     == Prefix(out, Len(block))
        base  == [var |-> i, start |-> start, stop |-> stop, block |-> block,
                  outlen |-> Len(out)]
    IN  IF ~SanityOk(out)
        THEN [base EXCEPT !.block = <<>>] @@
             [count |-> 0, result |-> "NaN or too large number!"]
        ELSE IF ~Broadcastable(Len(a), Len(block))
        THEN base @@ [count |-> 0, result |-> "ValueError"]
        ELSE base @@
             [count |-> BroadcastSize(Len(a), Len(block)),
              result |-> IF AllCloseBroadcast(a, block, rtol, ZeroDflPytest)
                         THEN "ok" ELSE "Difference larger than tol!"]

\* The loop over the variables: the first assert or exception that fails ends
\* the test.
RECURSIVE PytestNdbFrom(_, _, _, _)
PytestNdbFrom(ref, data, i, rtol) ==
    IF i >= Len(data) THEN <<>>
    ELSE LET v == PytestNdbVar(ref, data[i + 1], i, Len(data), rtol)
         IN  IF v.result = "ok"
             THEN <<v>> \o PytestNdbFrom(ref, data, i + 1, rtol)
             ELSE <<v>>

\* What a loop over the variables comes to.
NdbVerdict(trace) ==
    IF \A k \in 1..Len(trace) : trace[k].result = "ok"
    THEN [outcome |-> "Pass", reason |-> "ok", slices |-> trace]
    ELSE [outcome |-> "Fail", reason |-> trace[Len(trace)].result, slices |-> trace]

\* tests/test_reference.py on a '.ndb' reference.
PytestNdb(ref, data, rtol) == NdbVerdict(PytestNdbFrom(ref, data, 0, rtol))

\* scripts/test_reference.py on the i-th variable: np.max of an empty block
\* and a mask of arrays that do not broadcast raise ValueError, the boolean
\* index of a shorter array raises IndexError; the tolerance assert is caught.
ScriptNdbVar(ref, out, i, n, rtol) ==
    LET start == BlockStart(i, Len(ref), n)
        stop  == BlockStop(i, Len(ref), n)
        block == PySlice(ref, start, stop)
        a     == Prefix(out, Len(block))
        base  == [var |-> i, start |-> start, stop |-> stop, block |-> block,
                  outlen |-> Len(out)]
    IN  IF Len(block) = 0 \/ ~Broadcastable(Len(a), Len(block))
        THEN base @@ [count |-> 0, result |-> "ValueError", printed |-> FALSE]
        ELSE IF ~SanityOk(out)
        THEN base @@ [count |-> 0, result |-> "NaN or too large number!",
                      printed |-> FALSE]
        ELSE IF Len(a) # Len(block)
        THEN base @@ [count |-> 0, result |-> "IndexError", printed |-> FALSE]
        ELSE base @@
             [count |-> Cardinality(Mask(block, a)),
              result |-> "ok",
              printed |-> ~AllClose(a, block, Mask(block, a), rtol, ZeroDflScript)]

RECURSIVE ScriptNdbFrom(_, _, _, _)
ScriptNdbFrom(ref, data, i, rtol) ==
    IF i >= Len(data) THEN <<>>
    ELSE LET v == ScriptNdbVar(ref, data[i + 1], i, Len(data), rtol)
         IN  IF v.result = "ok"
             THEN <<v>> \o ScriptNdbFrom(ref, data, i + 1, rtol)
             ELSE <<v>>

\* scripts/test_reference.py on a database.
ScriptNdb(ref, data, rtol) == NdbVerdict(ScriptNdbFrom(ref, data, 0, rtol))

\* test_reference_ok of tests/test_reference.py on the reference and dataset.
TestReferenceOkNdb ==
    /\ ndbData # <<>>
    /\ verdict = <<>>
    /\ verdict' = <<PytestNdb(ndbRef, ndbData, tol)>>
    /\ UNCHANGED <<refData, outData, tol, scriptVerdict, ndbVars, repVars, againVars>>
    /\ UNCHANGED <<concVars, cmdLineVars>>
    /\ UNCHANGED harnessVars

\* test_reference_ok of scripts/test_reference.py on the reference and dataset.
ScriptReferenceOkNdb ==
    /\ ndbData # <<>>
    /\ scriptVerdict = <<>>
    /\ scriptVerdict' = <<ScriptNdb(ndbRef, ndbData, tol)>>
    /\ UNCHANGED <<refData, outData, tol, verdict, ndbVars, repVars, againVars>>
    /\ UNCHANGED <<concVars, cmdLineVars>>
    /\ UNCHANGED harnessVars

\* The flat sequences of 1 to n values.
FlatSeqs(n, values) == UNION {[1..k -> values] : k \in 1..n}

\* A flat reference, the variables declared for it and the dataset's values,
\* and the tolerance of the run; the harness is not running.
InitNdb ==
    /\ ndbRef \in FlatSeqs(MaxRefLen, NdbRefValues)
    /\ \E n \in VarCounts : ndbData \in [1..n -> FlatSeqs(MaxOutLen, NdbOutValues)]
    /\ CmpIdle
    /\ RepIdle
    /\ AgainIdle
    /\ ConcIdle
    /\ CmdIdle
    /\ HarnessIdle

NextNdb ==
    \/ TestReferenceOkNdb
    \/ ScriptReferenceOkNdb

SpecNdb == InitNdb /\ [][NextNdb]_vars

\* ------------------------------------------------- the report check

\* The ref_items whose reference name starts with 'r-': the name may hold
\* '.ndb' as well, and info['out'] is a string or a list.
ReportItems == [hasNdb : BOOLEAN, outIsList : BOOLEAN]

\* The files a report check may look at. refExists: REFERENCE/<ref> is there;
\* listed: the file info['out'][0] names, <<>> if missing, else <<it holds
\* the marker line>>; globbed: whether the files odir/r-* hold the marker
\* line, one value per kind of file found.
ReportFiles ==
    [refExists : BOOLEAN,
     listed : {<<>>, <<TRUE>>, <<FALSE>>},
     globbed : SUBSET BOOLEAN]

\* The out_file of test_reference_ok for an 'r-' item: <<>> if it does not
\* exist, else <<it holds the marker line>>. glob gives the files in no
\* defined order and tmp[0] is taken; with no match the path odir/ref is
\* used, which does not exist as it would have matched.
LocatedOutFiles(item, files) ==
    IF item.outIsList THEN {files.listed}
    ELSE IF files.globbed # {} THEN {<<m>> : m \in files.globbed}
    ELSE {<<>>}

\* test_reference_ok from the existence asserts on, for an 'r-' item and the
\* out_file it located: no reference file is asked for; a name holding '.ndb'
\* enters the dataset branch, where a missing reference file or a report
\* given to netCDF4 raises; then the lines are searched for the marker.
ReportVerdict(item, files, out) ==
    IF out = <<>>
    THEN [outcome |-> "Fail", reason |-> "file do not exists!",
          located |-> out, numeric |-> FALSE]
    ELSE IF item.hasNdb
    THEN [outcome |-> "Fail",
          reason |-> IF files.refExists THEN "OSError" ELSE "FileNotFoundError",
          located |-> out, numeric |-> TRUE]
    ELSE IF out[1]
    THEN [outcome |-> "Pass", reason |-> "ok", located |-> out, numeric |-> FALSE]
    ELSE [outcome |-> "Fail", reason |-> "report file incomplete!",
          located |-> out, numeric |-> FALSE]

\* test_reference_ok of tests/test_reference.py on an 'r-' item that is not
\* skipped.
TestReferenceOkReport ==
    /\ repItem # <<>>
    /\ verdict = <<>>
    /\ \E out \in LocatedOutFiles(repItem[1], repFiles[1]) :
          verdict' = <<ReportVerdict(repItem[1], repFiles[1], out)>>
    /\ UNCHANGED <<refData, outData, tol, scriptVerdict, ndbVars, repVars, againVars>>
    /\ UNCHANGED <<concVars, cmdLineVars>>
    /\ UNCHANGED harnessVars

\* An 'r-' item and a run directory; the harness is not running.
InitReport ==
    /\ repItem \in {<<i>> : i \in ReportItems}
    /\ repFiles \in {<<f>> : f \in ReportFiles}
    /\ CmpIdle
    /\ NdbIdle
    /\ AgainIdle
    /\ ConcIdle
    /\ CmdIdle
    /\ HarnessIdle

NextReport == TestReferenceOkReport

SpecReport == InitReport /\ [][NextReport]_vars

\* ------------------------------------------- pytest on a finished run

\* pytest is started once more on the run directory of a finished session.
PytestAgain ==
    /\ pc = "done"
    /\ session = 1
    /\ firstVerdicts' = <<[run |-> runVerdict, ref |-> refVerdict]>>
    /\ session' = 2
    /\ tix' = 0
    /\ runVerdict' = <<>>
    /\ refVerdict' = <<>>
    /\ pc' = "pytest"
    /\ UNCHANGED <<ti, error, outFiles>>
    /\ UNCHANGED <<ndbVars, repVars, cmpVars, inputVars, fetchVars, archiveVars,
                   runVars, fileVars>>
    /\ UNCHANGED <<concVars, cmdLineVars>>

\* The manifests pytest is explored with: every subtest runs yambo on "1".
PytestManifests ==
    {m \in Manifests(MaxSubtests) :
        \A i \in DOMAIN m : m[i].exe = "yambo" /\ m[i].input = <<49>>}

\* The run info run_test may have recorded for a manifest.
RunInfos(m) ==
    {[k \in 1..Len(m) |-> [name |-> SortedSubtests(m)[k], returncode |-> rc[k]]] :
        rc \in [1..Len(m) -> RetCodes]}

\* The state in which run_test has returned: every subtest has run and left
\* its files, results.toml is written.
InitPytest ==
    /\ parameters \in {p \in RunParameters :
                         ~p.nochecksum /\ p.mpi_launcher /\ p.exe["ypp"]}
    /\ ClArgs({<<>>})
    /\ tests = <<"GW-OPTICS">>
    /\ testsToml \in PytestManifests
    /\ ti = 1
    /\ pc = "pytest"
    /\ error = "none"
    /\ cache = [t \in TestTypes |-> IF t = "GW-OPTICS" THEN "full" ELSE "absent"]
    /\ process = <<>>
    /\ calls = <<[type |-> "GW-OPTICS", path |-> TarFile(TestName, "GW-OPTICS"),
                  process |-> <<>>, file |-> "full"]>>
    /\ extracted = "all"
    /\ tarAtCheck = "full"
    /\ runDir = SaveOnly
    /\ config = testsToml
    /\ subtests = SortedSubtests(testsToml)
    /\ idx = Len(testsToml) + 1
    /\ live = {}
    /\ launched = subtests
    /\ attempts = Len(testsToml)
    /\ results \in RunInfos(testsToml)
    /\ exits = [k \in 1..Len(results) |-> results[k].returncode]
    /\ outFiles \in [{p \in (DOMAIN testsToml) \X RefCounts :
                         p[2] <= testsToml[p[1]].nref}
                     -> {"agree", "differ"}]
    /\ resultsFile = <<[tollerance |-> parameters.tollerance, runs |-> results]>>
    /\ writes = 1
    /\ tix = 0
    /\ runVerdict = <<>>
    /\ refVerdict = <<>>
    /\ CmpIdle
    /\ AuxIdle

NextPytest ==
    \/ PytestGenerate
    \/ TestRunsOk
    \/ TestReferenceOk
    \/ PytestAgain

SpecPytest == InitPytest /\ [][NextPytest]_vars

\* ------------------------------------- two harnesses on one cache_dir

\* The two harness processes.
Harnesses == {1, 2}

\* Harness h goes on at label l.
Goto(h, l) == harness' = [harness EXCEPT ![h].pc = l]

\* An exception leaves the main of harness h.
AbortOf(h, e) == harness' = [harness EXCEPT ![h].pc = "aborted", ![h].error = e]

\* download_test of harness h: tar_file.exists() as the other harness left
\* the path; nothing is locked and no temporary name is used.
ConcDownloadTest(h) ==
    /\ harness[h].pc = "download_test"
    /\ harness' = [harness EXCEPT
                     ![h].process = <<>>,
                     ![h].foundAtCall = sharedTar,
                     ![h].pc = IF sharedTar # "absent" THEN "setup_rundir"
                               ELSE "wget"]
    /\ UNCHANGED <<sharedTar, writers>>
    /\ UNCHANGED <<ndbVars, repVars, againVars, cmdLineVars, cmpVars, harnessVars>>

\* wget -O tar_file of harness h: the file is created, or cut to no bytes if
\* it is there, before the transfer.
ConcWgetOpen(h) ==
    /\ harness[h].pc = "wget"
    /\ \E started \in BOOLEAN :
          IF started
          THEN /\ sharedTar' = "trunc"
               /\ writers' = writers \cup {h}
               /\ Goto(h, "wget_transfer")
          ELSE /\ \E rc \in NonZeroCodes :
                     harness' = [harness EXCEPT ![h].process = <<rc>>,
                                                ![h].pc = "setup_rundir"]
               /\ UNCHANGED <<sharedTar, writers>>
    /\ UNCHANGED <<ndbVars, repVars, againVars, cmdLineVars, cmpVars, harnessVars>>

\* The end of the transfer of harness h. While the other wget has the file
\* open too, it holds what this wget wrote or is cut off where the other one
\* cut it and has not yet written.
ConcWgetTransfer(h) ==
    /\ harness[h].pc = "wget_transfer"
    /\ \E c \in Contents :
          /\ sharedTar' \in IF writers = {h} THEN {c} ELSE {c, "trunc"}
          /\ harness' = [harness EXCEPT
                           ![h].process = IF c = "trunc"
                                          THEN <<CHOOSE rc \in NonZeroCodes : TRUE>>
                                          ELSE <<0>>,
                           ![h].pc = "setup_rundir"]
    /\ writers' = writers \ {h}
    /\ UNCHANGED <<ndbVars, repVars, againVars, cmdLineVars, cmpVars, harnessVars>>

\* The scratch directories of harness h, the copy and the load of tests.toml.
ConcSetupDirs(h) ==
    /\ harness[h].pc = "setup_rundir"
    /\ \E ok \in BOOLEAN :
          IF ok THEN Goto(h, "wait_download") ELSE AbortOf(h, "OSError")
    /\ UNCHANGED <<sharedTar, writers>>
    /\ UNCHANGED <<ndbVars, repVars, againVars, cmdLineVars, cmpVars, harnessVars>>

\* if process != None of harness h: a harness that found the file "already
\* available" has no process to wait for.
ConcWaitDownload(h) ==
    /\ harness[h].pc = "wait_download"
    /\ IF harness[h].process # <<>> /\ harness[h].process[1] # 0
       THEN AbortOf(h, "RuntimeError")
       ELSE Goto(h, "checksum")
    /\ UNCHANGED <<sharedTar, writers>>
    /\ UNCHANGED <<ndbVars, repVars, againVars, cmdLineVars, cmpVars, harnessVars>>

\* The checksum test of harness h, on the file as it is now.
ConcVerifyChecksum(h) ==
    /\ harness[h].pc = "checksum"
    /\ IF ~harness[h].nochecksum
       THEN harness' = [harness EXCEPT
                          ![h].tarAtCheck = sharedTar,
                          ![h].pc = IF ManifestSha # Sha256sum(sharedTar)
                                    THEN "aborted" ELSE "extract",
                          ![h].error = IF ManifestSha # Sha256sum(sharedTar)
                                       THEN "ValueError" ELSE @]
       ELSE Goto(h, "extract")
    /\ UNCHANGED <<sharedTar, writers>>
    /\ UNCHANGED <<ndbVars, repVars, againVars, cmdLineVars, cmpVars, harnessVars>>

\* tarfile.open and extractall of harness h, on the file as it is now.
ConcExtract(h) ==
    /\ harness[h].pc = "extract"
    /\ IF sharedTar = "trunc"
       THEN \E e \in {"none", "partial"} :
              harness' = [harness EXCEPT ![h].tarAtExtract = sharedTar,
                                         ![h].extracted = e,
                                         ![h].pc = "aborted",
                                         ![h].error = "ReadError"]
       ELSE harness' = [harness EXCEPT ![h].tarAtExtract = sharedTar,
                                       ![h].extracted = "all",
                                       ![h].pc = "run_test"]
    /\ UNCHANGED <<sharedTar, writers>>
    /\ UNCHANGED <<ndbVars, repVars, againVars, cmdLineVars, cmpVars, harnessVars>>

\* Two harnesses are started for the same test with the archive missing from
\* the cache they share; each has its own command line.
InitConc ==
    /\ harness \in [Harnesses -> [pc : {"download_test"},
                                  nochecksum : BOOLEAN,
                                  process : {<<>>},
                                  foundAtCall : {"unseen"},
                                  tarAtCheck : {"unchecked"},
                                  tarAtExtract : {"unread"},
                                  extracted : {"none"},
                                  error : {"none"}]]
    /\ sharedTar = "absent"
    /\ writers = {}
    /\ NdbIdle
    /\ RepIdle
    /\ AgainIdle
    /\ CmdIdle
    /\ CmpIdle
    /\ HarnessIdle

NextConc ==
    \E h \in Harnesses :
        \/ ConcDownloadTest(h)
        \/ ConcWgetOpen(h)
        \/ ConcWgetTransfer(h)
        \/ ConcSetupDirs(h)
        \/ ConcWaitDownload(h)
        \/ ConcVerifyChecksum(h)
        \/ ConcExtract(h)

SpecConc == InitConc /\ [][NextConc]_vars

\* ----------------------------------------- the command line of a subtest

\* Values of parameters['nprocs'].
NProcs == {1, 2, 16}

\* parameters['mpi_launcher'] after check_parameters: None or '' (<<>>), or
\* the path shutil.which found.
Launchers == {<<>>, <<"/usr/bin/mpirun">>}

\* A string is the sequence of its pieces; an argument list a sequence of
\* strings.
Digit(d) ==
    CASE d = 0 -> "0" [] d = 1 -> "1" [] d = 2 -> "2" [] d = 3 -> "3"
      [] d = 4 -> "4" [] d = 5 -> "5" [] d = 6 -> "6" [] d = 7 -> "7"
      [] d = 8 -> "8" [] d = 9 -> "9"

\* str(n) of a natural number.
RECURSIVE StrInt(_)
StrInt(n) ==
    IF n < 10 THEN <<Digit(n)>> ELSE StrInt(n \div 10) \o <<Digit(n % 10)>>

\* str(parameters[role]): the path of the executable, or "None" for None.
StrExe(par, role) == IF par.exe[role] THEN <<"/opt/yambo/bin/", role>> ELSE <<"None">>

\* flags = f",{run['flags']}" when the entry has non-empty flags, else "".
FlagsOf(run) ==
    IF run.flags # <<>> /\ run.flags[1] # <<>> THEN <<",">> \o run.flags[1] ELSE <<>>

\* Mutant of Cmd: the output label is passed once, with -J alone.
CmdJobOnly(par, run) ==
    (IF par.mpi_launcher # <<>>
     THEN <<par.mpi_launcher, <<"-np">>, StrInt(par.nprocs)>> ELSE <<>>)
    \o <<StrExe(par, run.exe)>>
    \o (IF run.input # <<>> THEN <<<<"-F">>, run.input>> ELSE <<>>)
    \o (IF run.output # <<>> THEN <<<<"-J">>, run.output \o FlagsOf(run)>> ELSE <<>>)

\* The cmd list of a loop body of run_test.
Cmd(par, run) ==
    (IF par.mpi_launcher # <<>>
     THEN <<par.mpi_launcher, <<"-np">>, StrInt(par.nprocs)>> ELSE <<>>)
    \o <<StrExe(par, run.exe)>>
    \o (IF run.input # <<>> THEN <<<<"-F">>, run.input>> ELSE <<>>)
    \o (IF run.output # <<>>
        THEN <<<<"-J">>, run.output \o FlagsOf(run), <<"-C">>, run.output>>
        ELSE <<>>)

\* ' '.join(cmd)
RECURSIVE Join(_)
Join(words) ==
    IF words = <<>> THEN <<>>
    ELSE IF Len(words) = 1 THEN words[1]
    ELSE words[1] \o <<" ">> \o Join(Tail(words))

\* The entries of tests.toml a command line is built for: 'flags' may be
\* missing (<<>>), empty or given.
CmdRuns ==
    [exe : Roles, input : {<<>>, <<"01_init">>}, output : {<<>>, <<"01_init">>},
     flags : {<<>>, <<<<>>>>, <<<<"elph">>>>}]

\* The parameters a command line is built from.
CmdParameters ==
    [mpi_launcher : Launchers, nprocs : NProcs, exe : [Roles -> BOOLEAN]]

\* The loop body of run_test up to Popen: the cmd list.
BuildCmd ==
    /\ cmd = <<>>
    /\ cmd' = <<Cmd(cmdPar[1], cmdRun[1])>>
    /\ UNCHANGED <<cmdPar, cmdRun, cmdResult>>
    /\ UNCHANGED <<ndbVars, repVars, againVars, concVars, cmpVars, harnessVars>>

\* results[name] = {..., "cmd": ' '.join(cmd), ...}
RecordCmd ==
    /\ cmd # <<>>
    /\ cmdResult = <<>>
    /\ cmdResult' = <<Join(cmd[1])>>
    /\ UNCHANGED <<cmdPar, cmdRun, cmd>>
    /\ UNCHANGED <<ndbVars, repVars, againVars, concVars, cmpVars, harnessVars>>

InitCmd ==
    /\ cmdPar \in {<<p>> : p \in CmdParameters}
    /\ cmdRun \in {<<r>> : r \in CmdRuns}
    /\ cmd = <<>>
    /\ cmdResult = <<>>
    /\ NdbIdle
    /\ RepIdle
    /\ AgainIdle
    /\ ConcIdle
    /\ CmpIdle
    /\ HarnessIdle

NextCmd ==
    \/ BuildCmd
    \/ RecordCmd

SpecCmd == InitCmd /\ [][NextCmd]_vars

\* ------------------------------------------------------ claims: run_test

\* x occurs in the sequence s.
InSeq(x, s) == \E k \in 1..Len(s) : s[k] = x

\* a sorts strictly before b: at the first position where they differ a is
\* shorter or holds the smaller code point.
LexBefore(a, b) ==
    \E k \in 1..(Len(b)) :
        /\ \A j \in 1..(k - 1) : j <= Len(a) /\ a[j] = b[j]
        /\ (k = Len(a) + 1 \/ (k <= Len(a) /\ a[k] < b[k]))

\* Subtest x comes before subtest y in the canonical execution order of the
\* manifest: by input-file name, declaration order among equal names.
RunsBefore(x, y) ==
    \/ LexBefore(testsToml[x].input, testsToml[y].input)
    \/ (testsToml[x].input = testsToml[y].input /\ x < y)

\* C1: every subtest whose executable role is unresolved gets the return
\* code -9999 recorded, has no process started for it, and does not stop
\* the loop.
C1_UnavailableRecordedNotLaunched ==
    \A k \in 1..Len(subtests) :
        ~ExeResolved(subtests[k]) =>
            /\ ~InSeq(subtests[k], launched)
            /\ (k <= Len(results) => results[k].returncode = UNAVAILABLE)
            /\ ~(pc = "aborted" /\ idx = k)

\* C2: once main is through with a test case, a subtest whose executable is
\* unavailable has Skip from test_runs_ok and Skip from test_reference_ok for
\* each of its references.
C2_UnavailableYieldsSkip ==
    pc = "done" =>
        \A i \in DOMAIN config :
            ~ExeResolved(i) =>
                /\ i \in DOMAIN runVerdict
                /\ runVerdict[i] = "Skip"
                /\ \A j \in 1..config[i].nref :
                      /\ <<i, j>> \in DOMAIN refVerdict
                      /\ refVerdict[<<i, j>>] = "Skip"

\* C3: the subtests are launched in the canonical order (ascending input-file
\* name, declaration order among equal names), none is passed over, all are
\* launched when the loop ends, and a subtest is launched only when every
\* process launched before it has exited.
C3_LaunchOrder ==
    /\ \A a, b \in 1..Len(launched) :
          a < b => RunsBefore(launched[a], launched[b])
    /\ \A x \in DOMAIN config :
          ~InSeq(x, launched) =>
              \A k \in 1..Len(launched) : ~RunsBefore(x, launched[k])
    /\ (pc \in {"pytest", "test_runs_ok", "test_reference_ok", "done"} =>
          \A x \in DOMAIN testsToml : InSeq(x, launched))
    /\ \A k \in 1..(Len(launched) - 1) : launched[k] \notin live
    /\ Cardinality(live) <= 1

\* C3 witness: "12" sorts before "2", so the subtest declared second was
\* launched first and has exited while the one declared first is running.
C3_Witness ==
    /\ Len(testsToml) = 2
    /\ testsToml[1].input = <<50>>
    /\ testsToml[2].input = <<49, 50>>
    /\ launched = <<2, 1>>
    /\ live = {1}

\* The return code recorded for subtest i.
RecordedCode(i) == ReturnCodeOf(results, i)

\* C8: the code a process exits with is the code recorded for its subtest;
\* a nonzero return code is recorded and the loop goes on to the next
\* subtest: the run stops only at a later launch. test_runs_ok then gives
\* Pass exactly for 0, Skip exactly for -9999 and Fail for any other code, and
\* a finished run has a verdict for every subtest.
C8_NonzeroRecordedAndFails ==
    /\ Len(results) = Len(exits)
    /\ \A k \in 1..Len(exits) : results[k].returncode = exits[k]
    /\ \A k \in 1..Len(results) :
          results[k].returncode # 0 =>
              /\ (k < Len(subtests) =>
                     attempts > k \/ (pc = "loop" /\ idx = k + 1))
              /\ (pc = "aborted" => attempts > k)
    /\ \A i \in DOMAIN runVerdict :
          runVerdict[i] # "none" =>
              /\ (runVerdict[i] = "Pass" <=> RecordedCode(i) = 0)
              /\ (runVerdict[i] = "Skip" <=> RecordedCode(i) = UNAVAILABLE)
              /\ (runVerdict[i] = "Fail" <=> RecordedCode(i) \notin {0, UNAVAILABLE})
    /\ (pc = "done" =>
          \A i \in DOMAIN testsToml :
              i \in DOMAIN runVerdict /\ runVerdict[i] # "none")

\* C8 witness: the first subtest exited with 1, the second was still run and
\* exited with 0, and test_runs_ok failed the first and passed the second.
C8_Witness ==
    /\ pc = "done"
    /\ Len(results) = 2
    /\ results[1].returncode = 1
    /\ results[2].returncode = 0
    /\ runVerdict[results[1].name] = "Fail"
    /\ runVerdict[results[2].name] = "Pass"

\* C9: results.toml is written at most once, only when every subtest of the
\* manifest has its run info recorded, with one entry per subtest and the
\* tolerance; a run that was aborted leaves no results.toml.
C9_ResultsWrittenOnceAtEnd ==
    /\ writes <= 1
    /\ (resultsFile # <<>> =>
          /\ writes = 1
          /\ Len(results) = Len(testsToml)
          /\ Len(resultsFile[1].runs) = Len(testsToml)
          /\ \A i \in DOMAIN testsToml : InSeq(i, [k \in 1..Len(resultsFile[1].runs)
                                                     |-> resultsFile[1].runs[k].name])
          /\ resultsFile[1].tollerance = parameters.tollerance)
    /\ (pc = "aborted" => resultsFile = <<>> /\ writes = 0)
    /\ (pc \in {"pytest", "test_runs_ok", "test_reference_ok", "done"} =>
          resultsFile # <<>>)

\* C9 witness: a launch failed after the first of two subtests was recorded
\* and run_dir holds no results.toml.
C9_Witness ==
    /\ pc = "aborted"
    /\ Len(subtests) = 2
    /\ Len(results) = 1
    /\ resultsFile = <<>>

\* ------------------------------------------- claims: download and archive

\* Call l is the next call after call k for the same archive.
NextCallFor(k, l) ==
    /\ k < l
    /\ calls[k].type = calls[l].type
    /\ \A m \in (k + 1)..(l - 1) : calls[m].type # calls[k].type

\* C4: with verification on, a cached file whose digest differs from the
\* manifest's ends main with ValueError: nothing of the archive is extracted,
\* no subtest is launched, and the cached file is as it was.
C4_MismatchPreventsExtraction ==
    (tarAtCheck # "unchecked" /\ Sha256sum(tarAtCheck) # ManifestSha) =>
        /\ pc = "aborted"
        /\ error = "ValueError"
        /\ extracted = "none"
        /\ attempts = 0
        /\ launched = <<>>
        /\ cache[cur] = tarAtCheck

\* C4 witness: the cache held a complete archive that is not the manifest's;
\* its checksum was compared and main ended there.
C4_Witness ==
    /\ tarAtCheck = "other"
    /\ pc = "aborted"
    /\ error = "ValueError"
    /\ cache[cur] = "other"

C6_CacheHoldsOnlyCompleteArchives ==
    /\ (pc # "wget_transfer" =>
          \A t \in TestTypes : cache[t] \in {"absent", "full", "other"})
    /\ \A k \in 1..Len(calls) :
          calls[k].process = <<>> => calls[k].file # "trunc"

\* C7: after a call whose wget returned nonzero the caller raises: main does
\* not go on past it in any mode.
C7_FailedFetchIsAnError ==
    \A k \in 1..Len(calls) :
        (calls[k].process # <<>> /\ calls[k].process[1] # 0) =>
            \/ pc = "aborted"
            \/ (k = Len(calls) /\ pc \in {"setup_rundir", "wait_download"})

\* ------------------------------------------------------ claims: comparator

\* The rows of data column c that are not noise meet the tolerance of
\* tests/test_reference.py and the column is sane.
ComparedRowsAgree(c) ==
    /\ SanityOk(outData[c])
    /\ AllClose(outData[c], refData[c], Mask(refData[c], outData[c]),
                tol, ZeroDflPytest)

\* C10: rows whose reference and output value are both below 0.1% of the
\* column's largest reference magnitude cannot fail a check: when all other
\* rows of every data column agree, neither comparator fails.
C10_NoiseRowsNeverFail ==
    (refData # <<>> /\ \A c \in 2..Len(refData) : ComparedRowsAgree(c)) =>
        /\ (verdict # <<>> => verdict[1].outcome = "Pass")
        /\ (scriptVerdict # <<>> => scriptVerdict[1].outcome = "Pass")

\* Some compared pair of column c breaks |out - ref| <= atol + rtol * |ref|:
\* the rows compared are those of the mask.
ComparedPairViolates(c, atol) ==
    ~AllClose(outData[c], refData[c], Mask(refData[c], outData[c]), tol, atol)

\* C11: when a compared pair of a data column breaks the tolerance bound the
\* check fails, in tests/test_reference.py and in scripts/test_reference.py,
\* and a check that passes has no such pair.
C11_ViolationFails ==
    refData # <<>> =>
        /\ (verdict # <<>> =>
              ((\E c \in 2..Len(refData) : ComparedPairViolates(c, ZeroDflPytest))
                  => verdict[1].outcome = "Fail"))
        /\ (scriptVerdict # <<>> =>
              ((\E c \in 2..Len(refData) : ComparedPairViolates(c, ZeroDflScript))
                  => scriptVerdict[1].outcome = "Fail"))

\* ------------------------------------------- claims: dataset comparator

\* The slices a dataset verdict lists are the equal blocks of the reference:
\* the k-th is the variable k-1 against [(k-1)*(L div n), k*(L div n)), each
\* starting where the one before stopped.
EqualBlocks(slices) ==
    LET q == Len(ndbRef) \div Len(ndbData) IN
    \A k \in 1..Len(slices) :
        /\ slices[k].var = k - 1
        /\ slices[k].start = (k - 1) * q
        /\ slices[k].stop = k * q
        /\ slices[k].stop <= Len(ndbRef)
        /\ slices[k].block = [j \in 1..q |-> ndbRef[(k - 1) * q + j]]
        /\ (k > 1 => slices[k].start = slices[k - 1].stop)

\* C12: each declared variable is compared against its own block of the flat
\* reference, the i-th against [i*(L div n), (i+1)*(L div n)), in both
\* comparators; a check that passes went through every declared variable.
C12_BlockSlices ==
    /\ (verdict # <<>> /\ ndbData # <<>> =>
          /\ EqualBlocks(verdict[1].slices)
          /\ (verdict[1].outcome = "Pass" =>
                 Len(verdict[1].slices) = Len(ndbData)))
    /\ (scriptVerdict # <<>> /\ ndbData # <<>> =>
          /\ EqualBlocks(scriptVerdict[1].slices)
          /\ (scriptVerdict[1].outcome = "Pass" =>
                 Len(scriptVerdict[1].slices) = Len(ndbData)))

\* C12 witness: a reference of 4 values and 2 variables, compared against
\* [0:2] and [2:4].
C12_Witness ==
    /\ Len(ndbRef) = 4
    /\ Len(ndbData) = 2
    /\ verdict # <<>>
    /\ Len(verdict[1].slices) = 2
    /\ verdict[1].slices[1].start = 0
    /\ verdict[1].slices[1].stop = 2
    /\ verdict[1].slices[2].start = 2
    /\ verdict[1].slices[2].stop = 4

\* C13: for each variable the pairs compared are as many as the shorter of
\* the dataset variable and its reference block, the variable is fine exactly
\* when those pairs are within tolerance, and neither comparator raises on a
\* difference of lengths.
C13_ComparesShorterLength ==
    /\ (verdict # <<>> /\ ndbData # <<>> =>
          \A k \in 1..Len(verdict[1].slices) :
              LET v == verdict[1].slices[k]
                  c == Min(v.outlen, Len(v.block))
              IN  /\ v.count = c
                  /\ (v.result = "ok" <=>
                         \A j \in 1..c :
                             IsClose(ndbData[k][j], v.block[j], tol, ZeroDflPytest)))
    /\ (scriptVerdict # <<>> /\ ndbData # <<>> =>
          \A k \in 1..Len(scriptVerdict[1].slices) :
              LET v == scriptVerdict[1].slices[k]
              IN  Len(v.block) > 0 => v.result = "ok")

\* ------------------------------------------------- claims: report check

\* C14: the check of an 'r-' reference passes exactly when the output file
\* it located exists and holds the marker line, fails otherwise, needs no
\* reference file and does no numeric comparison.
C14_ReportPassIffMarker ==
    (verdict # <<>> /\ repItem # <<>>) =>
        /\ verdict[1].outcome \in {"Pass", "Fail"}
        /\ (verdict[1].outcome = "Pass" <=>
               (verdict[1].located # <<>> /\ verdict[1].located[1]))
        /\ ~verdict[1].numeric

\* ---------------------------------------------- claims: pytest sessions

C16_EveryReferenceChecked ==
    /\ (pc = "test_reference_ok" =>
          \A k \in 1..Len(RefItems) :
              (k < tix) <=>
                  (refVerdict[<<RefItems[k].key, RefItems[k].ref>>] # "none"))
    /\ (pc = "done" =>
          \A i \in DOMAIN testsToml :
              \A j \in 1..testsToml[i].nref :
                  /\ <<i, j>> \in DOMAIN refVerdict
                  /\ refVerdict[<<i, j>>] \in {"Pass", "Fail", "Skip"})

\* C16 witness: the first reference check of the session failed and the one
\* after it was evaluated and passed.
C16_Witness ==
    /\ pc = "done"
    /\ <<1, 2>> \in DOMAIN refVerdict
    /\ refVerdict[<<1, 1>>] = "Fail"
    /\ refVerdict[<<1, 2>>] = "Pass"

\* ------------------------------------------- claims: concurrent fetches

\* Both harnesses are through with setup_rundir.
BothFinished == \A h \in Harnesses : harness[h].pc \in {"run_test", "aborted"}

\* C17: of two harnesses that fetch the same missing archive into one cache
\* directory, neither finds, checksums or extracts a cut-off file, and when
\* both are through the cache holds a complete archive.
C17_NoPartialArchiveUsed ==
    harness # <<>> =>
        /\ \A h \in Harnesses :
              /\ harness[h].tarAtCheck # "trunc"
              /\ harness[h].tarAtExtract # "trunc"
        /\ (BothFinished => sharedTar \in {"full", "other"})

\* ------------------------------------------- claims: the SAVE directories

\* C18: the step of run_test before its loop never raises. With
\* SAVE_converted and SAVE both there it leaves the converted content in SAVE,
\* what SAVE held in oldSAVE and no SAVE_converted; without SAVE_converted it
\* leaves run_dir as it was.
C18_SwapNeverAborts ==
    [][pc = "run_test" =>
          /\ pc' = "loop"
          /\ (runDir.SAVE_converted = "absent" => runDir' = runDir)
          /\ (runDir.SAVE_converted # "absent" /\ runDir.SAVE # "absent" =>
                 /\ runDir'.SAVE = runDir.SAVE_converted
                 /\ runDir'.oldSAVE = runDir.SAVE
                 /\ runDir'.SAVE_converted = "absent")]_vars

\* ------------------------------------------- claims: the command line

\* Number of arguments the launcher accounts for.
LauncherArgs == IF cmdPar[1].mpi_launcher # <<>> THEN 3 ELSE 0

\* Number of arguments the input file accounts for.
InputArgs == IF cmdRun[1].input # <<>> THEN 2 ELSE 0

\* The argument after -J: the label, then ',' and the flags if any are given.
LabelArg ==
    IF cmdRun[1].flags \in {<<>>, <<<<>>>>} THEN cmdRun[1].output
    ELSE cmdRun[1].output \o <<",">> \o cmdRun[1].flags[1]

\* The launcher, the executable and the input file are where the command
\* line is said to have them; the executable is the resolved path when there
\* is one.
CmdHead ==
    /\ (LauncherArgs = 3 =>
          /\ cmd[1][1] = cmdPar[1].mpi_launcher
          /\ cmd[1][2] = <<"-np">>
          /\ cmd[1][3] = StrInt(cmdPar[1].nprocs))
    /\ (cmdPar[1].exe[cmdRun[1].exe] =>
          cmd[1][LauncherArgs + 1] = <<"/opt/yambo/bin/", cmdRun[1].exe>>)
    /\ (InputArgs = 2 =>
          /\ cmd[1][LauncherArgs + 2] = <<"-F">>
          /\ cmd[1][LauncherArgs + 3] = cmdRun[1].input)

\* C19 as stated: the command line is the launcher prefix iff a launcher is
\* configured, the executable, -F and the input iff an input is declared, and
\* -J with the label (',' and the flags appended iff flags are given) iff an
\* output is declared, and nothing else; 'cmd' records it.
C19_CmdExactly ==
    cmd # <<>> =>
        LET o == LauncherArgs + 1 + InputArgs
        IN  /\ CmdHead
            /\ Len(cmd[1]) = o + (IF cmdRun[1].output # <<>> THEN 2 ELSE 0)
            /\ (cmdRun[1].output # <<>> =>
                  /\ cmd[1][o + 1] = <<"-J">>
                  /\ cmd[1][o + 2] = LabelArg)
            /\ (cmdResult # <<>> => cmdResult[1] = Join(cmd[1]))

\* C19 amended: as stated, but a declared output adds four arguments, -J with
\* the label (and flags) and -C with the bare label, and the executable
\* argument of an unresolved role is the text "None".
C19_CmdWithComDir ==
    cmd # <<>> =>
        LET o == LauncherArgs + 1 + InputArgs
        IN  /\ CmdHead
            /\ (~cmdPar[1].exe[cmdRun[1].exe] =>
                  cmd[1][LauncherArgs + 1] = <<"None">>)
            /\ Len(cmd[1]) = o + (IF cmdRun[1].output # <<>> THEN 4 ELSE 0)
            /\ (cmdRun[1].output # <<>> =>
                  /\ cmd[1][o + 1] = <<"-J">>
                  /\ cmd[1][o + 2] = LabelArg
                  /\ cmd[1][o + 3] = <<"-C">>
                  /\ cmd[1][o + 4] = cmdRun[1].output)
            /\ (cmdResult # <<>> => cmdResult[1] = Join(cmd[1]))

\* C19 witness: a recorded command line with a launcher, an input, an output
\* and flags.
C19_Witness ==
    /\ cmdResult # <<>>
    /\ cmdPar[1].mpi_launcher # <<>>
    /\ cmdPar[1].nprocs = 16
    /\ cmdRun[1].input # <<>>
    /\ cmdRun[1].output # <<>>
    /\ cmdRun[1].flags = <<<<"elph">>>>
    /\ cmdResult[1] = <<"/usr/bin/mpirun", " ", "-np", " ", "1", "6", " ",
                        "/opt/yambo/bin/", cmdRun[1].exe, " ", "-F", " ",
                        "01_init", " ", "-J", " ", "01_init", ",", "elph", " ",
                        "-C", " ", "01_init">>

\* ------------------------------------------- claims: the checksum switch

\* C20: the checksum is skipped exactly when --nochecksum is given or
\* config.toml sets nochecksum; with neither, parameters['nochecksum'] is
\* False and an archive with another digest is not extracted.
C20_ChecksumByDefault ==
    /\ (parameters.nochecksum <=>
           ("--nochecksum" \in argv \/ configToml = <<TRUE>>))
    /\ (argv = {} /\ configToml = <<>> =>
           /\ ~parameters.nochecksum
           /\ (extracted = "all" /\ ti <= Len(tests) =>
                  Sha256sum(cache[cur]) = ManifestSha))

====
